---- MODULE Spec2Model ----
(***************************************************************************)
(* Model of the qris-classifier request pipeline: the fixed-window rate    *)
(* limiter (src/lib/rate-limiter.ts), the credential store                  *)
(* (src/lib/auth.ts) and the POST /classify, /auth and /api-keys handlers.  *)
(* Time is the value of Date.now(), scaled so that one window is WindowMs   *)
(* ticks long.                                                              *)
(***************************************************************************)
EXTENDS Integers, Sequences, FiniteSets, TLC

\* ------------------------------------------------------------------ bounds
\* length of one rate-limit window in ticks (3600000 ms in the code)
WindowMs == 3
\* last instant of Date.now() the model explores
MaxTime == 6
\* largest limit passed to checkRateLimit in the limiter-only specification
MaxLimit == 2
\* calls of checkRateLimit per identifier and window in the limiter-only specification
MaxCalls == 3
\* POST /auth requests in the credential-store specification
MaxLogins == 2
\* keys generateApiKey can still return in the credential-store specification
MaxFreshKeys == 2

\* ------------------------------------------------------------------ program constants
\* GlobalRateLimiter.GLOBAL_LIMIT
GLOBAL_LIMIT == 10
\* the most images one request may carry
MaxImages == 5

Max(a, b) == IF a >= b THEN a ELSE b

\* defaultAdmin.rateLimit
DefaultAdminRateLimit == 1000

UserIds == {"admin-001", "user_1", "user_2"}
AdminEmail == "admin@qris-classifier.com"
\* the password ensureDefaultAdmin hashes, and the one authenticateUser
\* compares with in fallback mode
AdminPassword == "admin123"
\* the password both user-creating handlers pass to createUser
DefaultPassword == "defaultPassword123"
\* defaultAdmin.apiKey: drawn once when the module is loaded
DefaultAdminKey == "qris_admin_0"

defaultAdmin ==
    [id |-> "admin-001", email |-> AdminEmail, apiKey |-> DefaultAdminKey,
     role |-> "admin", rateLimit |-> DefaultAdminRateLimit, isActive |-> TRUE]

\* null / undefined where a User is expected
NoUser ==
    [id |-> "", email |-> "", apiKey |-> "", role |-> "", rateLimit |-> 0,
     isActive |-> FALSE]

\* the strings generateApiKey can return, and the two keys that exist at start
FreshKeys == {"qris_f" \o ToString(i) : i \in 1..MaxFreshKeys}
AllKeys == {DefaultAdminKey, "qris_u1"} \cup FreshKeys

\* no Authorization and no X-API-Key header
NoToken == ""
\* the string jwt.sign returns for a payload with userId = id
JwtOf(id) == "jwt:" \o id
Ips == {"ip1"}
GlobalIdentifier(ip) == "global:" \o ip
Identifiers == UserIds \cup {GlobalIdentifier(ip) : ip \in Ips}
\* the identifiers the limiter-only specification calls checkRateLimit with
RLIdentifiers == {"user_1", GlobalIdentifier("ip1")}

VARIABLES
    now,             \* Date.now()
    rateLimitStore,  \* Map key -> RateLimitEntry; the domain is the set of keys present
    last,            \* the latest checkRateLimit call and what it returned; history:
                     \* the map all calls so far would have left, and what the
                     \* latest would have returned, had cleanup never run; in the
                     \* one-identifier specification also the number of admitted
                     \* calls per instant
    callsInWin,      \* history, per identifier: the window of its latest call and the
                     \* number of checkRateLimit calls made in that window
    databaseConnected, \* the module flag of auth.ts
    dbUp,            \* the database answers queries (otherwise Database.query throws)
    dbUsers,         \* the rows of table users, by id
    fallbackUsers,   \* Map id -> User
    fallbackApiKeys, \* Map apiKey -> userId
    issuedJwt,       \* user ids for which an unexpired signed token exists
    usedKeys,        \* history: the API keys the random generator has returned so far
    regen,           \* history: the latest successful key regeneration still in force
    deactivated,     \* history: users whose isActive was set to false and not
                     \* set back to true by an update since
    req,             \* the POST /classify requests: where each handler stands, what it
                     \* holds in its locals, and the response it returned
    started,         \* history: number of POST /classify requests begun
    rlSeen,          \* history, per user: the window of the latest request that reached
                     \* the RATE_LIMIT stage, how many did in that window, how many
                     \* of them were admitted
    burst            \* history: all request slots were in flight before the
                     \* RATE_LIMIT stage at the same moment

rlVars == <<now, rateLimitStore, last, callsInWin>>
storeVars == <<databaseConnected, dbUp, dbUsers, fallbackUsers, fallbackApiKeys>>
authVars == <<databaseConnected, dbUp, dbUsers, fallbackUsers, fallbackApiKeys, issuedJwt,
              usedKeys, regen, deactivated>>
reqVars == <<req, started, rlSeen, burst>>
vars == <<now, rateLimitStore, last, callsInWin,
          databaseConnected, dbUp, dbUsers, fallbackUsers, fallbackApiKeys, issuedJwt,
          usedKeys, regen, deactivated, req, started, rlSeen, burst>>

NoRegen == [user |-> "", old |-> "", new |-> ""]

\* the rateLimit of user_1, the user whose budget the POST /classify
\* specifications exhaust
User1RateLimit == 2
\* request slots: enough for 2 * User1RateLimit requests in flight at once
Req == 1..(2 * User1RateLimit)
\* handlers in flight at once, and requests begun, in the POST /classify specification
MaxInFlight == 2
MaxStarted == 3
\* the last instant of the POST /classify specification: one past the first
\* window boundary
ClassifyEnd == 4

\* the images map of a request body, by key: image1..image5 are the slots of
\* the schema, image6 stands for any other key. A slot is absent, holds the
\* empty string, a base64 image data URI ("ok"), or any other non-empty
\* string ("text"); "okBig" and "textBig" are such strings above the size limit
SchemaSlots == 1..5
BodySlots == 1..6
ImageKinds == {"absent", "empty", "ok", "text", "okBig", "textBig"}
NoImages == [i \in BodySlots |-> "absent"]
\* no body has been read
NoBody == [json |-> FALSE, images |-> NoImages, bn |-> ""]

\* a slot no request has used yet; headers = the names of the headers set on
\* the response, shape = the shape of its JSON body; pre = the count the
\* first checkRateLimit call of the request read before it incremented,
\* calls = the number of checkRateLimit calls the request made
IdleReq ==
    [pc |-> "idle", token |-> NoToken, ip |-> "", user |-> NoUser, rl |-> 0,
     bn |-> "", status |-> 0, code |-> "", remaining |-> 0, sec |-> FALSE,
     k |-> 0, ka |-> 0, win |-> 0, trail |-> <<>>,
     sizeOk |-> TRUE, typeOk |-> TRUE, body |-> NoBody, slot |-> 0,
     classifyCalls |-> 0, compareCalls |-> 0, classifyThrew |-> FALSE,
     businessType |-> "", comparison |-> "", headers |-> {}, shape |-> "",
     pre |-> 0, calls |-> 0]

\* no POST /classify request has arrived
InitReqIdle ==
    /\ req = [r \in Req |-> IdleReq]
    /\ started = 0
    /\ rlSeen = [i \in Identifiers |-> [window |-> 0, n |-> 0, admitted |-> 0]]
    /\ burst = FALSE

\* the credential store before AuthService.initialize has run
InitAuthIdle ==
    /\ databaseConnected = FALSE
    /\ dbUp = FALSE
    /\ dbUsers = <<>>
    /\ fallbackUsers = <<>>
    /\ fallbackApiKeys = <<>>
    /\ issuedJwt = {}
    /\ usedKeys = {}
    /\ regen = NoRegen
    /\ deactivated = {}

\* ------------------------------------------------------------------ RateLimiter
getKey(identifier, window) == <<identifier, window>>

getCurrentWindow(t, windowMs) == t \div windowMs

\* Math.ceil(now / windowMs) * windowMs
CeilReset(t, windowMs) == ((t + windowMs - 1) \div windowMs) * windowMs

\* a read that misses the latest increment of the stored entry
LiveEntry_Stale(st, key, t, windowMs) ==
    IF key \notin DOMAIN st \/ st[key].resetTime < t
    THEN [count |-> 0, resetTime |-> CeilReset(t, windowMs)]
    ELSE [st[key] EXCEPT !.count = Max(0, @ - 1)]

\* the entry checkRateLimit works on: the stored one, or a fresh zero entry
\* when none is stored or the stored one has resetTime < now
LiveEntry(st, key, t, windowMs) ==
    IF key \notin DOMAIN st \/ st[key].resetTime < t
    THEN [count |-> 0, resetTime |-> CeilReset(t, windowMs)]
    ELSE st[key]

checkRateLimit_NoClamp(st, identifier, limit, t, windowMs) ==
    LET key == getKey(identifier, getCurrentWindow(t, windowMs))
        e == LiveEntry(st, key, t, windowMs)
        entry == [e EXCEPT !.count = @ + 1]
    IN [store |-> (key :> entry) @@ st,
        allowed |-> entry.count <= limit,
        remaining |-> limit - entry.count,
        resetTime |-> CeilReset(t, windowMs)]

checkRateLimit(st, identifier, limit, t, windowMs) ==
    LET key == getKey(identifier, getCurrentWindow(t, windowMs))
        e == LiveEntry(st, key, t, windowMs)
        entry == [e EXCEPT !.count = @ + 1]
    IN [store |-> (key :> entry) @@ st,
        allowed |-> entry.count <= limit,
        remaining |-> Max(0, limit - entry.count),
        resetTime |-> CeilReset(t, windowMs)]

\* a sweep that deletes every entry
cleanup_All(st, t) == <<>>

\* RateLimiter.cleanup: delete every entry with resetTime < now
cleanup(st, t) ==
    LET keep == {k \in DOMAIN st : ~(st[k].resetTime < t)}
    IN [k \in keep |-> st[k]]

NoCall == [called |-> FALSE, key |-> <<"", 0>>, limit |-> 0, nth |-> 0,
           allowed |-> FALSE, remaining |-> 0, resetTime |-> 0,
           noSweep |-> <<>>, allowedNoSweep |-> FALSE, remainingNoSweep |-> 0,
           admittedAt |-> [t \in 0..MaxTime |-> 0]]

\* n calls of checkRateLimit(identifier, limit) in a row at time t, n >= 1:
\* what the last of them returns
checkRateLimitTimes(st, identifier, limit, t, windowMs, n) ==
    IF n = 1 THEN checkRateLimit(st, identifier, limit, t, windowMs)
    ELSE checkRateLimit(checkRateLimit(st, identifier, limit, t, windowMs).store,
                        identifier, limit, t, windowMs)

\* calls already made for `identifier` in `window`, from the history
CallsSoFar(h, identifier, window) ==
    IF h[identifier].window = window THEN h[identifier].n ELSE 0

\* ------------------------------------------------------------------ limiter-only specification
InitRL ==
    /\ now = 1
    /\ rateLimitStore = <<>>
    /\ last = NoCall
    /\ callsInWin = [i \in Identifiers |-> [window |-> 0, n |-> 0]]
    /\ InitAuthIdle
    /\ InitReqIdle

\* one call RateLimiter.checkRateLimit(identifier, limit) at the current instant
CheckRateLimitCall ==
    \E identifier \in RLIdentifiers, limit \in 1..MaxLimit :
        LET key == getKey(identifier, getCurrentWindow(now, WindowMs))
            r == checkRateLimit(rateLimitStore, identifier, limit, now, WindowMs)
            seen == CallsSoFar(callsInWin, identifier, key[2])
            h == checkRateLimit(last.noSweep, identifier, limit, now, WindowMs)
        IN /\ seen < MaxCalls
           /\ rateLimitStore' = r.store
           /\ last' = [called |-> TRUE, key |-> key, limit |-> limit, nth |-> seen + 1,
                       allowed |-> r.allowed, remaining |-> r.remaining,
                       resetTime |-> r.resetTime,
                       noSweep |-> h.store, allowedNoSweep |-> h.allowed,
                       remainingNoSweep |-> h.remaining,
                       admittedAt |-> last.admittedAt]
           /\ callsInWin' = [callsInWin EXCEPT ![identifier] = [window |-> key[2], n |-> seen + 1]]
           /\ UNCHANGED <<now, authVars, reqVars>>

\* a timer whose callback does nothing
CleanupCall_Idle ==
    /\ UNCHANGED vars

\* the hourly setInterval sweep, or an admin's cleanup-rate-limits action
CleanupCall ==
    /\ rateLimitStore' = cleanup(rateLimitStore, now)
    /\ UNCHANGED <<now, last, callsInWin, authVars, reqVars>>

\* the clock advances, up to the instant `until`
TickUntil(until) ==
    /\ now < until
    /\ now' = now + 1
    /\ UNCHANGED <<rateLimitStore, last, callsInWin, authVars, reqVars>>

Tick == TickUntil(MaxTime)

NextRL == CheckRateLimitCall \/ CleanupCall \/ Tick

SpecRL == InitRL /\ [][NextRL]_vars

\* the same, with the setInterval timer firing for as long as the process
\* lives: a sweep that has something to delete is not postponed forever
SpecRLFair == InitRL /\ [][NextRL]_vars /\ WF_vars(CleanupCall)

\* ------------------------------------------------------------------ one identifier, one limit
\* calls of checkRateLimit per window in the one-identifier specification:
\* enough to exhaust the largest limit twice
MaxWindowCalls == 4

\* one call RateLimiter.checkRateLimit("user_1", limit) at the current
\* instant, with the limit of the calls before it
LimitedCall ==
    \E limit \in 1..MaxLimit :
        LET key == getKey("user_1", getCurrentWindow(now, WindowMs))
            r == checkRateLimit(rateLimitStore, "user_1", limit, now, WindowMs)
            seen == CallsSoFar(callsInWin, "user_1", key[2])
            h == checkRateLimit(last.noSweep, "user_1", limit, now, WindowMs)
        IN /\ last.called => limit = last.limit
           /\ seen < MaxWindowCalls
           /\ rateLimitStore' = r.store
           /\ last' = [called |-> TRUE, key |-> key, limit |-> limit, nth |-> seen + 1,
                       allowed |-> r.allowed, remaining |-> r.remaining,
                       resetTime |-> r.resetTime,
                       noSweep |-> h.store, allowedNoSweep |-> h.allowed,
                       remainingNoSweep |-> h.remaining,
                       admittedAt |-> IF r.allowed
                                      THEN [last.admittedAt EXCEPT ![now] = @ + 1]
                                      ELSE last.admittedAt]
           /\ callsInWin' = [callsInWin EXCEPT !["user_1"] = [window |-> key[2], n |-> seen + 1]]
           /\ UNCHANGED <<now, authVars, reqVars>>

NextLimited == LimitedCall \/ CleanupCall \/ Tick

SpecLimited == InitRL /\ [][NextLimited]_vars

\* ------------------------------------------------------------------ AuthService
\* the state of the credential store, as one record the operations map over
AuthStore ==
    [connected |-> databaseConnected, up |-> dbUp, db |-> dbUsers,
     fu |-> fallbackUsers, fk |-> fallbackApiKeys]

UserFields == {"id", "email", "apiKey", "role", "rateLimit", "isActive"}

\* the User a SELECT returns: the row without password_hash
RowToUser(row) == [f \in UserFields |-> row[f]]

\* the ids of the rows a SELECT ... WHERE field = value returns
DbRowsWhere(s, field, value) == {id \in DOMAIN s.db : s.db[id][field] = value}

\* initialize's catch block: seed the in-memory maps with the default admin
SeedFallback(s) ==
    [s EXCEPT !.fu = (defaultAdmin.id :> defaultAdmin) @@ s.fu,
              !.fk = (defaultAdmin.apiKey :> defaultAdmin.id) @@ s.fk]

\* ensureDefaultAdmin: TRUE when its queries succeed. The INSERT throws when a
\* row with the primary key admin-001 exists under another email.
EnsureDefaultAdminOk(s) ==
    /\ s.up
    /\ \/ DbRowsWhere(s, "email", defaultAdmin.email) # {}
       \/ defaultAdmin.id \notin DOMAIN s.db

\* the row ensureDefaultAdmin inserts
AdminRow == defaultAdmin @@ [password |-> AdminPassword]

\* AuthService.initialize
initialize(s) ==
    IF EnsureDefaultAdminOk(s)
    THEN [s EXCEPT !.connected = TRUE,
                   !.db = IF DbRowsWhere(s, "email", defaultAdmin.email) # {}
                          THEN s.db
                          ELSE (defaultAdmin.id :> AdminRow) @@ s.db]
    ELSE SeedFallback([s EXCEPT !.connected = FALSE])

\* AuthService.getUserById: the database first (whatever databaseConnected says),
\* then the in-memory map, re-seeding the default admin when it is asked for
getUserById(s, id) ==
    IF s.up /\ id \in DOMAIN s.db
    THEN [user |-> RowToUser(s.db[id]), s |-> s]
    ELSE IF id \in DOMAIN s.fu
    THEN [user |-> s.fu[id], s |-> s]
    ELSE IF id = defaultAdmin.id
    THEN [user |-> defaultAdmin, s |-> SeedFallback(s)]
    ELSE [user |-> NoUser, s |-> s]

\* AuthService.getUserByApiKey
getUserByApiKey(s, apiKey) ==
    LET rows == DbRowsWhere(s, "apiKey", apiKey)
    IN IF s.connected /\ s.up /\ rows # {}
       THEN RowToUser(s.db[CHOOSE id \in rows : TRUE])
       ELSE IF apiKey \in DOMAIN s.fk /\ s.fk[apiKey] \in DOMAIN s.fu
       THEN s.fu[s.fk[apiKey]]
       ELSE NoUser

\* AuthService.getUserByEmail
getUserByEmail(s, email) ==
    LET rows == DbRowsWhere(s, "email", email)
        mem == {id \in DOMAIN s.fu : s.fu[id].email = email}
    IN IF s.connected /\ s.up /\ rows # {}
       THEN RowToUser(s.db[CHOOSE id \in rows : TRUE])
       ELSE IF mem # {} THEN s.fu[CHOOSE id \in mem : TRUE]
       ELSE NoUser

\* AuthService.verifyToken: the subject of a token signed by this server and
\* not expired, "" for anything else
verifyToken(token, issued) ==
    IF \E id \in UserIds : token = JwtOf(id) /\ id \in issued
    THEN CHOOSE id \in UserIds : token = JwtOf(id)
    ELSE ""

\* authenticateRequest without `user.isActive` on the API-key branch
authenticateRequest_KeyOfInactive(s, token, issued) ==
    IF token = NoToken
    THEN [user |-> NoUser, authType |-> "", s |-> s]
    ELSE LET sub == verifyToken(token, issued)
             byId == IF sub # "" THEN getUserById(s, sub) ELSE [user |-> NoUser, s |-> s]
             byKey == getUserByApiKey(byId.s, token)
         IN IF byId.user # NoUser /\ byId.user.isActive
            THEN [user |-> byId.user, authType |-> "jwt", s |-> byId.s]
            ELSE IF byKey # NoUser
            THEN [user |-> byKey, authType |-> "apikey", s |-> byId.s]
            ELSE [user |-> NoUser, authType |-> "", s |-> byId.s]

\* authenticateRequest: [user, authType, s], user = NoUser for null
authenticateRequest(s, token, issued) ==
    IF token = NoToken
    THEN [user |-> NoUser, authType |-> "", s |-> s]
    ELSE LET sub == verifyToken(token, issued)
             byId == IF sub # "" THEN getUserById(s, sub) ELSE [user |-> NoUser, s |-> s]
             byKey == getUserByApiKey(byId.s, token)
         IN IF byId.user # NoUser /\ byId.user.isActive
            THEN [user |-> byId.user, authType |-> "jwt", s |-> byId.s]
            ELSE IF byKey # NoUser /\ byKey.isActive
            THEN [user |-> byKey, authType |-> "apikey", s |-> byId.s]
            ELSE [user |-> NoUser, authType |-> "", s |-> byId.s]

\* AuthService.createUser with the id and the API key its random draws gave:
\* [ok, user, s]; ok = FALSE when the INSERT throws (database unreachable, or a
\* primary-key or UNIQUE violation)
createUser(s, email, role, rateLimit, id, key) ==
    LET user == [id |-> id, email |-> email, apiKey |-> key, role |-> role,
                 rateLimit |-> rateLimit, isActive |-> TRUE]
        clash == (DbRowsWhere(s, "email", email) \cup DbRowsWhere(s, "apiKey", key))
    IN IF s.connected
       THEN IF s.up /\ id \notin DOMAIN s.db /\ clash = {}
            THEN [ok |-> TRUE, user |-> user,
                  s |-> [s EXCEPT !.db = (id :> (user @@ [password |-> DefaultPassword])) @@ s.db]]
            ELSE [ok |-> FALSE, user |-> NoUser, s |-> s]
       ELSE [ok |-> TRUE, user |-> user,
             s |-> [s EXCEPT !.fu = (id :> user) @@ s.fu, !.fk = (key :> id) @@ s.fk]]

\* what a field holds after the spread of an update object whose key is
\* present with the value undefined: falsy, equal to no email or role, and
\* a limit no count is <= to
UndefinedValue(k) ==
    IF k = "rateLimit" THEN 0 ELSE IF k = "isActive" THEN FALSE ELSE "undefined"

\* the UPDATE of updateUser succeeds and returns a row
DbUpdateOk(s, id, upd) ==
    /\ s.connected
    /\ DOMAIN upd.set # {}
    /\ s.up
    /\ id \in DOMAIN s.db
    /\ \A other \in DOMAIN s.db \ {id} :
          /\ "email" \in DOMAIN upd.set => s.db[other].email # upd.set.email
          /\ "apiKey" \in DOMAIN upd.set => s.db[other].apiKey # upd.set.apiKey

\* AuthService.updateUser(id, updates): upd.set holds the keys with a defined
\* value, upd.undef the keys present with the value undefined. [user, s]
updateUser(s, id, upd) ==
    IF DbUpdateOk(s, id, upd)
    THEN LET row == [k \in DOMAIN s.db[id] |->
                        IF k \in DOMAIN upd.set THEN upd.set[k] ELSE s.db[id][k]]
         IN [user |-> RowToUser(row), s |-> [s EXCEPT !.db[id] = row]]
    ELSE IF id \notin DOMAIN s.fu
    THEN [user |-> NoUser, s |-> s]
    ELSE LET user == s.fu[id]
             updatedUser == [k \in UserFields |->
                                IF k \in DOMAIN upd.set THEN upd.set[k]
                                ELSE IF k \in upd.undef THEN UndefinedValue(k)
                                ELSE user[k]]
             rekey == "apiKey" \in DOMAIN upd.set /\ upd.set.apiKey # user.apiKey
             fk1 == IF rekey
                    THEN (upd.set.apiKey :> id) @@
                         [k \in DOMAIN s.fk \ {user.apiKey} |-> s.fk[k]]
                    ELSE s.fk
         IN [user |-> updatedUser,
             s |-> [s EXCEPT !.fu = (id :> updatedUser) @@ s.fu, !.fk = fk1]]

\* AuthService.deleteUser: [deleted, s]
deleteUser(s, id) ==
    IF s.connected
    THEN IF s.up /\ id \in DOMAIN s.db
         THEN [deleted |-> TRUE,
               s |-> [s EXCEPT !.db = [k \in DOMAIN s.db \ {id} |-> s.db[k]]]]
         ELSE [deleted |-> FALSE, s |-> s]
    ELSE IF id \notin DOMAIN s.fu
    THEN [deleted |-> FALSE, s |-> s]
    ELSE [deleted |-> TRUE,
          s |-> [s EXCEPT !.fu = [k \in DOMAIN s.fu \ {id} |-> s.fu[k]],
                          !.fk = [k \in DOMAIN s.fk \ {s.fu[id].apiKey} |-> s.fk[k]]]]

\* AuthService.authenticateUser: [user, s]. It runs initialize again
\* whenever databaseConnected is false.
authenticateUser(s, email, password) ==
    LET s1 == IF s.connected THEN s ELSE initialize(s)
        rows == DbRowsWhere(s1, "email", email)
        row == s1.db[CHOOSE id \in rows : TRUE]
    IN IF s1.connected
       THEN IF s1.up /\ rows # {} /\ password = row.password /\ row.isActive
            THEN [user |-> RowToUser(row), s |-> s1]
            ELSE [user |-> NoUser, s |-> s1]
       ELSE IF /\ defaultAdmin.id \in DOMAIN s1.fu
               /\ s1.fu[defaultAdmin.id].email = email
               /\ password = AdminPassword
            THEN [user |-> s1.fu[defaultAdmin.id], s |-> s1]
            ELSE [user |-> NoUser, s |-> s1]

\* ------------------------------------------------------------------ /auth and /api-keys handlers
SetStore(s) ==
    /\ databaseConnected' = s.connected
    /\ dbUp' = s.up
    /\ dbUsers' = s.db
    /\ fallbackUsers' = s.fu
    /\ fallbackApiKeys' = s.fk

\* a handler has called checkRateLimit(identifier, limit) n times in a row
\* at this instant and r is what the last call returned: the store and the
\* call history after it
DoCheckRateLimit(identifier, limit, r, n) ==
    \E c \in {[id |-> identifier, limit |-> limit, n |-> n]} :
    \E h \in {checkRateLimitTimes(last.noSweep, c.id, c.limit, now, WindowMs, c.n)} :
        LET key == getKey(c.id, getCurrentWindow(now, WindowMs))
            seen == CallsSoFar(callsInWin, c.id, key[2])
        IN /\ rateLimitStore' = r.store
           /\ last' = [called |-> TRUE, key |-> key, limit |-> c.limit, nth |-> seen + c.n,
                       allowed |-> r.allowed, remaining |-> r.remaining,
                       resetTime |-> r.resetTime,
                       noSweep |-> h.store, allowedNoSweep |-> h.allowed,
                       remainingNoSweep |-> h.remaining,
                       admittedAt |-> last.admittedAt]
           /\ callsInWin' = [callsInWin EXCEPT ![c.id] = [window |-> key[2], n |-> seen + c.n]]

\* the users of the credential-store specification
AuthUserIds == {"admin-001", "user_1"}

\* the credentials a client can present: nothing, any API key, any token string
Tokens == {NoToken} \cup AllKeys \cup {JwtOf(id) : id \in AuthUserIds}

\* POST /auth?action=login
Login(ip, email, password) ==
    LET rl == checkRateLimit(rateLimitStore, GlobalIdentifier(ip), GLOBAL_LIMIT, now, WindowMs)
        r == authenticateUser(AuthStore, email, password)
    IN /\ CallsSoFar(callsInWin, GlobalIdentifier(ip), getCurrentWindow(now, WindowMs)) < MaxLogins
       /\ DoCheckRateLimit(GlobalIdentifier(ip), GLOBAL_LIMIT, rl, 1)
       /\ IF ~rl.allowed
          THEN UNCHANGED <<storeVars, issuedJwt>>
          ELSE /\ SetStore(r.s)
               /\ issuedJwt' = IF r.user = NoUser \/ ~r.user.isActive
                               THEN issuedJwt
                               ELSE issuedJwt \cup {r.user.id}
       /\ UNCHANGED <<now, usedKeys, regen, deactivated, reqVars>>

\* GET /auth
GetProfile(token) ==
    LET a == authenticateRequest(AuthStore, token, issuedJwt)
    IN /\ SetStore(a.s)
       /\ UNCHANGED <<now, rateLimitStore, last, callsInWin, issuedJwt, usedKeys,
                      regen, deactivated, reqVars>>

\* the bodies PUT /auth is sent with, besides userId
PutBodies == {[isActive |-> TRUE], [isActive |-> FALSE], [rateLimit |-> 2]}

\* PUT /auth with body {userId, ...body}
PutUser(token, userId, body) ==
    LET a == authenticateRequest(AuthStore, token, issuedJwt)
        isAdmin == a.user.role = "admin"
        forbidden == \/ ~isAdmin /\ userId # a.user.id
                     \/ ~isAdmin /\ ("role" \in DOMAIN body \/ "rateLimit" \in DOMAIN body)
        upd == [set |-> body,
                undef |-> {"email", "role", "rateLimit", "isActive"} \ DOMAIN body]
        u == updateUser(a.s, userId, upd)
    IN /\ UNCHANGED <<now, rateLimitStore, last, callsInWin, issuedJwt, usedKeys, reqVars>>
       /\ IF a.user = NoUser
          THEN /\ SetStore(a.s)
               /\ UNCHANGED <<regen, deactivated>>
          ELSE IF forbidden
          THEN /\ SetStore(a.s)
               /\ UNCHANGED <<regen, deactivated>>
          ELSE /\ SetStore(u.s)
               /\ regen' = IF regen.user = userId THEN NoRegen ELSE regen
               /\ deactivated' =
                     IF u.user = NoUser \/ "isActive" \notin DOMAIN body THEN deactivated
                     ELSE IF body.isActive THEN deactivated \ {userId}
                     ELSE deactivated \cup {userId}

\* DELETE /auth?userId= (DELETE /api-keys?userId= runs the same steps)
DeleteUserReq(token, userId) ==
    LET a == authenticateRequest(AuthStore, token, issuedJwt)
        d == deleteUser(a.s, userId)
    IN /\ UNCHANGED <<now, rateLimitStore, last, callsInWin, issuedJwt, usedKeys, reqVars>>
       /\ IF a.user = NoUser \/ a.user.role # "admin"
          THEN /\ SetStore(a.s)
               /\ UNCHANGED <<regen, deactivated>>
          ELSE /\ SetStore(d.s)
               /\ regen' = IF regen.user = userId THEN NoRegen ELSE regen
               /\ deactivated' = IF d.deleted THEN deactivated \ {userId} ELSE deactivated

\* POST /api-keys with body {userId?}: regenerate; target = "" for no userId.
\* newKey is what generateApiKey returns: a string it has not returned before.
RegenerateApiKey(token, target, newKey) ==
    LET a == authenticateRequest(AuthStore, token, issuedJwt)
        targetUserId == IF target # "" THEN target ELSE a.user.id
        t == getUserById(a.s, targetUserId)
        u == updateUser(t.s, targetUserId, [set |-> [apiKey |-> newKey], undef |-> {}])
    IN /\ newKey \in AllKeys \ usedKeys
       /\ UNCHANGED <<now, rateLimitStore, last, callsInWin, issuedJwt, deactivated, reqVars>>
       /\ IF a.user = NoUser
          THEN /\ SetStore(a.s)
               /\ UNCHANGED <<regen, usedKeys>>
          ELSE IF a.user.role # "admin" /\ targetUserId # a.user.id
          THEN /\ SetStore(a.s)
               /\ UNCHANGED <<regen, usedKeys>>
          ELSE IF t.user = NoUser
          THEN /\ SetStore(t.s)
               /\ regen' = IF regen.user = targetUserId THEN NoRegen ELSE regen
               /\ UNCHANGED usedKeys
          ELSE /\ SetStore(u.s)
               /\ usedKeys' = usedKeys \cup {newKey}
               /\ regen' = IF u.user # NoUser
                           THEN [user |-> targetUserId, old |-> t.user.apiKey, new |-> newKey]
                           ELSE IF regen.user = targetUserId THEN NoRegen ELSE regen

\* the handler of GET and POST /auth/verify for a request whose Authorization
\* header is "Bearer " + token (no such header for NoToken): the status, the
\* message of the error body ("" for the 200 body) and the store it leaves
verifyTokenRoute(s, token, issued) ==
    IF token = NoToken
    THEN [status |-> 401, error |-> "Missing or invalid authorization header", s |-> s]
    ELSE IF verifyToken(token, issued) = ""
    THEN [status |-> 401, error |-> "Invalid or expired token", s |-> s]
    ELSE LET t == getUserById(s, verifyToken(token, issued))
         IN IF t.user = NoUser
            THEN [status |-> 401, error |-> "User not found", s |-> t.s]
            ELSE IF ~t.user.isActive
            THEN [status |-> 401, error |-> "User account is disabled", s |-> t.s]
            ELSE [status |-> 200, error |-> "", s |-> t.s]

\* GET or POST /auth/verify
VerifyTokenReq(token) ==
    /\ SetStore(verifyTokenRoute(AuthStore, token, issuedJwt).s)
    /\ UNCHANGED <<now, rateLimitStore, last, callsInWin, issuedJwt, usedKeys,
                   regen, deactivated, reqVars>>

\* the database becomes unreachable / reachable again
DbFails ==
    /\ dbUp
    /\ dbUp' = FALSE
    /\ UNCHANGED <<now, rateLimitStore, last, callsInWin, databaseConnected, dbUsers,
                   fallbackUsers, fallbackApiKeys, issuedJwt, usedKeys, regen,
                   deactivated, reqVars>>

DbRecovers ==
    /\ ~dbUp
    /\ dbUp' = TRUE
    /\ UNCHANGED <<now, rateLimitStore, last, callsInWin, databaseConnected, dbUsers,
                   fallbackUsers, fallbackApiKeys, issuedJwt, usedKeys, regen,
                   deactivated, reqVars>>

\* the row of the user that exists in the database before the process starts
User1Row ==
    [id |-> "user_1", email |-> "u1@x.com", apiKey |-> "qris_u1", role |-> "user",
     rateLimit |-> User1RateLimit, isActive |-> TRUE, password |-> DefaultPassword]

\* ------------------------------------------------------------------ POST /classify
\* the headers SecurityMiddleware.applySecurityHeaders sets with the default
\* configuration (enableCSP) outside production
SecurityHeaders ==
    {"X-XSS-Protection", "X-Content-Type-Options", "X-Frame-Options", "Referrer-Policy",
     "Permissions-Policy", "Content-Security-Policy"}

applySecurityHeaders(headers) == headers \cup SecurityHeaders

RateLimitHeaders == {"X-RateLimit-Limit", "X-RateLimit-Remaining", "X-RateLimit-Reset"}

\* the shapes of a JSON body: {success: false, error: {code, message, details}},
\* {success: true, data, rateLimit}, and {error, message, retryAfter}
BodyShapes == {"errorEnvelope", "successEnvelope", "errorString"}

\* createErrorResponse: the error envelope with the security headers
ErrorResponse(q, status, code) ==
    [q EXCEPT !.pc = "done", !.status = status, !.code = code, !.sec = TRUE,
              !.headers = applySecurityHeaders({}), !.shape = "errorEnvelope"]

\* RateLimiter.createRateLimitResponse, returned by the handler as it is: the
\* body {error: 'Rate limit exceeded', message, retryAfter}
RateLimitResponse(q, remaining) ==
    [q EXCEPT !.pc = "done", !.status = 429, !.code = "Rate limit exceeded",
              !.remaining = remaining, !.sec = FALSE,
              !.headers = RateLimitHeaders \cup {"Retry-After"}, !.shape = "errorString"]

\* createSuccessResponse with rateLimit.remaining = rateLimitInfo.remaining - 1
SuccessResponse(q) ==
    [q EXCEPT !.pc = "done", !.status = 200, !.code = "", !.remaining = q.rl - 1,
              !.sec = TRUE, !.headers = applySecurityHeaders(RateLimitHeaders),
              !.shape = "successEnvelope"]

Visit(q, stage) == [q EXCEPT !.trail = Append(@, stage)]

\* a handler that counts the request against the budget of its IP before the
\* prechecks
Begin_CountFirst(r, slots, token, ip, sizeOk, typeOk, cap) ==
    LET q0 == Visit([IdleReq EXCEPT !.token = token, !.ip = ip,
                                    !.sizeOk = sizeOk, !.typeOk = typeOk], "size")
        q1 == IF ~sizeOk THEN ErrorResponse(q0, 413, "REQUEST_TOO_LARGE")
              ELSE IF ~typeOk
              THEN ErrorResponse(Visit(q0, "type"), 415, "INVALID_CONTENT_TYPE")
              ELSE [Visit(q0, "type") EXCEPT !.pc = "auth"]
    IN /\ r \in slots
       /\ req[r].pc \in {"idle", "done"}
       /\ \A r2 \in slots : r2 < r => req[r2].pc # "idle"
       /\ started < cap
       /\ req' = [req EXCEPT ![r] = q1]
       /\ started' = started + 1
       /\ burst' = (burst \/ \A r2 \in slots : req'[r2].pc \in {"auth", "ratelimit"})
       /\ rateLimitStore' =
             checkRateLimit(rateLimitStore, GlobalIdentifier(ip), GLOBAL_LIMIT, now, WindowMs).store
       /\ UNCHANGED <<now, last, callsInWin, authVars, rlSeen>>

\* a request arrives in slot r and runs up to `await authenticateRequest`:
\* the size gate, the content-type gate, getClientIP. Slots are taken in
\* order; a finished slot takes the next request.
Begin(r, slots, token, ip, sizeOk, typeOk, cap) ==
    LET q0 == Visit([IdleReq EXCEPT !.token = token, !.ip = ip,
                                    !.sizeOk = sizeOk, !.typeOk = typeOk], "size")
        q1 == IF ~sizeOk THEN ErrorResponse(q0, 413, "REQUEST_TOO_LARGE")
              ELSE IF ~typeOk
              THEN ErrorResponse(Visit(q0, "type"), 415, "INVALID_CONTENT_TYPE")
              ELSE [Visit(q0, "type") EXCEPT !.pc = "auth"]
    IN /\ r \in slots
       /\ req[r].pc \in {"idle", "done"}
       /\ \A r2 \in slots : r2 < r => req[r2].pc # "idle"
       /\ started < cap
       /\ req' = [req EXCEPT ![r] = q1]
       /\ started' = started + 1
       /\ burst' = (burst \/ \A r2 \in slots : req'[r2].pc \in {"auth", "ratelimit"})
       /\ UNCHANGED <<now, rateLimitStore, last, callsInWin, authVars, rlSeen>>

\* authenticateRequest resolves
Authenticate(r) ==
    LET a == authenticateRequest(AuthStore, req[r].token, issuedJwt)
    IN /\ req[r].pc = "auth"
       /\ req' = [req EXCEPT ![r] = [Visit(@, "auth") EXCEPT !.pc = "ratelimit", !.user = a.user]]
       /\ SetStore(a.s)
       /\ UNCHANGED <<now, rateLimitStore, last, callsInWin, issuedJwt, usedKeys, regen,
                      deactivated, started, rlSeen, burst>>

\* `if (!authResult)`: the request takes the anonymous path
AnonymousPath_Everyone(user) == TRUE

AnonymousPath(user) == user = NoUser

\* from the result of authenticateRequest to `await request.json()`, for the
\* request q with the limiter's map st at time t: the anonymous budget and
\* 401, or applyRateLimit followed by the second checkRateLimit call that
\* fills rateLimitInfo. q = the request after it, r = what the last
\* checkRateLimit call returned, n = the number of calls made
RateLimitOutcome(q, st, t) ==
    LET g == checkRateLimit(st, GlobalIdentifier(q.ip), GLOBAL_LIMIT, t, WindowMs)
        a1 == checkRateLimit(st, q.user.id, q.user.rateLimit, t, WindowMs)
        a2 == checkRateLimit(a1.store, q.user.id, q.user.rateLimit, t, WindowMs)
    IN IF AnonymousPath(q.user)
       THEN [q |-> IF ~g.allowed
                   THEN RateLimitResponse(Visit(q, "anon"), g.remaining)
                   ELSE ErrorResponse(Visit(q, "anon"), 401, "AUTHENTICATION_REQUIRED"),
             id |-> GlobalIdentifier(q.ip), limit |-> GLOBAL_LIMIT, r |-> g, n |-> 1,
             admitted |-> FALSE]
       ELSE IF ~a1.allowed
       THEN [q |-> RateLimitResponse(Visit(q, "userlimit"), a1.remaining),
             id |-> q.user.id, limit |-> q.user.rateLimit, r |-> a1, n |-> 1,
             admitted |-> FALSE]
       ELSE [q |-> [Visit(q, "userlimit") EXCEPT !.pc = "validate", !.rl = a2.remaining],
             id |-> q.user.id, limit |-> q.user.rateLimit, r |-> a2, n |-> 2,
             admitted |-> TRUE]

\* the RATE_LIMIT stage of the request in slot r runs
RateLimitStage(r) ==
    /\ req[r].pc = "ratelimit"
    /\ \E o \in {RateLimitOutcome(req[r], rateLimitStore, now)} :
          LET w == getCurrentWindow(now, WindowMs)
              seen == IF rlSeen[o.id].window = w THEN rlSeen[o.id]
                      ELSE [window |-> w, n |-> 0, admitted |-> 0]
          IN /\ UNCHANGED <<now, authVars, started, burst>>
             /\ DoCheckRateLimit(o.id, o.limit, o.r, o.n)
             /\ req' = [req EXCEPT ![r] =
                   [o.q EXCEPT !.win = w, !.k = seen.n + 1,
                               !.ka = IF o.admitted THEN seen.admitted + 1 ELSE @,
                               !.pre = LiveEntry(rateLimitStore, getKey(o.id, w), now,
                                                 WindowMs).count,
                               !.calls = o.n]]
             /\ rlSeen' = [rlSeen EXCEPT ![o.id] =
                   [seen EXCEPT !.n = @ + 1, !.admitted = IF o.admitted THEN @ + 1 ELSE @]]

\* the business names a body can supply, and the business types the
\* classifier (a language model that returns free text) can answer
BusinessNames == {"Warung Makan Sederhana", "Toko Budi"}
\* businessName: '' in the body
EmptyName == "<empty>"
\* `businessName` is truthy: a non-empty string
TruthyName(bn) == bn \notin {"", EmptyName}
BusinessTypes == {"Restaurant", "salon", "Constructor"}

\* the bodies a request can carry: json = request.json() resolves and
\* everything but the images map and businessName matches the schema;
\* images = the images
\* map, where the key image6 is absent or holds a data URI; bn =
\* businessName, "" when it is not supplied, EmptyName when it is supplied
\* as the empty string
Bodies ==
    {b \in [json : BOOLEAN, images : [BodySlots -> ImageKinds],
            bn : {"", EmptyName} \cup BusinessNames] :
        b.images[6] \in {"absent", "ok"}}

\* `value` is truthy: the slot holds a non-empty string
Truthy(kind) == kind \notin {"absent", "empty"}

\* what ClassifyRequestSchema.parse returns for images: z.object keeps the
\* keys of its shape and drops every other key
ParsedImages(images) == [i \in SchemaSlots |-> images[i]]

\* the slots counted by Object.values(data).filter(Boolean) and listed by
\* Object.entries(images).filter(([_, value]) => value)
imageEntries(parsed) == {i \in DOMAIN parsed : Truthy(parsed[i])}

\* a schema that accepts every body
SchemaAccepts_Any(body) == TRUE

\* the body parses and everything but its images map matches
\* ClassifyRequestSchema: businessName is z.string().min(1) when supplied
WellShaped(body) == body.json /\ body.bn # EmptyName

\* ClassifyRequestSchema: the refine wants 1..5 non-empty slots
SchemaAccepts(body) ==
    /\ WellShaped(body)
    /\ Cardinality(imageEntries(ParsedImages(body.images))) >= 1
    /\ Cardinality(imageEntries(ParsedImages(body.images))) <= MaxImages

\* a validator that accepts every non-empty string
isValidBase64Image_Any(kind) == TRUE

\* InputValidator.isValidBase64Image
isValidBase64Image(kind) == kind \in {"ok", "okBig"}

\* InputValidator.validateImageSizes
validateImageSizes(parsed) ==
    \A i \in DOMAIN parsed : Truthy(parsed[i]) => parsed[i] \notin {"okBig", "textBig"}

\* a loop that looks at the first entry only
InvalidEntries_FirstOnly(parsed) ==
    {i \in imageEntries(parsed) :
        ~isValidBase64Image(parsed[i]) /\ \A j \in imageEntries(parsed) : i <= j}

\* the entries the `for` loop rejects; it returns at the first of them
InvalidEntries(parsed) == {i \in imageEntries(parsed) : ~isValidBase64Image(parsed[i])}
FirstInvalid(parsed) ==
    CHOOSE i \in InvalidEntries(parsed) : \A j \in InvalidEntries(parsed) : i <= j

\* request.json() has resolved: the schema, the image checks, and the call of
\* classifyBusinessType
Validate(r, body) ==
    LET q == [Visit(req[r], "body") EXCEPT !.body = body]
        images == ParsedImages(body.images)
        entries == imageEntries(images)
        qc == Visit(q, "count")
        qf == Visit(qc, "format")
        qs == Visit(qf, "imgsize")
    IN /\ req[r].pc = "validate"
       /\ req' = [req EXCEPT ![r] =
             IF ~SchemaAccepts(body) THEN ErrorResponse(q, 400, "INVALID_REQUEST_BODY")
             ELSE IF Cardinality(entries) = 0
             THEN ErrorResponse(qc, 400, "NO_IMAGES_PROVIDED")
             ELSE IF Cardinality(entries) > MaxImages
             THEN ErrorResponse(qc, 400, "TOO_MANY_IMAGES")
             ELSE IF InvalidEntries(images) # {}
             THEN [ErrorResponse(qf, 400, "INVALID_IMAGE_FORMAT") EXCEPT
                      !.slot = FirstInvalid(images)]
             ELSE IF ~validateImageSizes(images)
             THEN ErrorResponse(qs, 400, "IMAGE_TOO_LARGE")
             ELSE [Visit(qs, "classify") EXCEPT
                      !.pc = "classify", !.bn = body.bn, !.classifyCalls = @ + 1]]
       /\ UNCHANGED <<now, rateLimitStore, last, callsInWin, authVars, started, rlSeen, burst>>

\* a handler that calls classifyBusinessType once more after it threw
ClassifyReturns_Retry(r, throws, businessType) ==
    LET q == req[r]
    IN /\ q.pc = "classify"
       /\ req' = [req EXCEPT ![r] =
             IF throws /\ q.classifyCalls < 2
             THEN [q EXCEPT !.classifyCalls = @ + 1]
             ELSE IF throws
             THEN ErrorResponse([q EXCEPT !.classifyThrew = TRUE], 500, "INTERNAL_SERVER_ERROR")
             ELSE IF TruthyName(q.bn)
             THEN [Visit(q, "compare") EXCEPT
                      !.pc = "compare", !.businessType = businessType, !.compareCalls = @ + 1]
             ELSE SuccessResponse([q EXCEPT !.businessType = businessType])]
       /\ UNCHANGED <<now, rateLimitStore, last, callsInWin, authVars, started, rlSeen, burst>>

\* a handler that goes on to the comparison after it answered 500
ClassifyReturns_GoesOn(r, throws, businessType) ==
    LET q == req[r]
    IN /\ q.pc = "classify"
       /\ req' = [req EXCEPT ![r] =
             IF throws
             THEN [ErrorResponse([q EXCEPT !.classifyThrew = TRUE], 500,
                                 "INTERNAL_SERVER_ERROR") EXCEPT
                      !.pc = "compare", !.compareCalls = @ + 1]
             ELSE IF TruthyName(q.bn)
             THEN [Visit(q, "compare") EXCEPT
                      !.pc = "compare", !.businessType = businessType, !.compareCalls = @ + 1]
             ELSE SuccessResponse([q EXCEPT !.businessType = businessType])]
       /\ UNCHANGED <<now, rateLimitStore, last, callsInWin, authVars, started, rlSeen, burst>>

\* a handler that calls compareBusinessNames whenever classification succeeded
ClassifyReturns_AlwaysCompare(r, throws, businessType) ==
    LET q == req[r]
    IN /\ q.pc = "classify"
       /\ req' = [req EXCEPT ![r] =
             IF throws
             THEN ErrorResponse([q EXCEPT !.classifyThrew = TRUE], 500, "INTERNAL_SERVER_ERROR")
             ELSE [Visit(q, "compare") EXCEPT
                      !.pc = "compare", !.businessType = businessType, !.compareCalls = @ + 1]]
       /\ UNCHANGED <<now, rateLimitStore, last, callsInWin, authVars, started, rlSeen, burst>>

\* classifyBusinessType returns {businessType} or throws
ClassifyReturns(r, throws, businessType) ==
    LET q == req[r]
    IN /\ q.pc = "classify"
       /\ req' = [req EXCEPT ![r] =
             IF throws
             THEN ErrorResponse([q EXCEPT !.classifyThrew = TRUE], 500, "INTERNAL_SERVER_ERROR")
             ELSE IF TruthyName(q.bn)
             THEN [Visit(q, "compare") EXCEPT
                      !.pc = "compare", !.businessType = businessType, !.compareCalls = @ + 1]
             ELSE SuccessResponse([q EXCEPT !.businessType = businessType])]
       /\ UNCHANGED <<now, rateLimitStore, last, callsInWin, authVars, started, rlSeen, burst>>

\* s.toLowerCase().trim()
Normalize(str) ==
    CASE str = "Warung Makan Sederhana" -> "warung makan sederhana"
      [] str = "Toko Budi" -> "toko budi"
      [] str = "Restaurant" -> "restaurant"
      [] str = "Constructor" -> "constructor"
      [] OTHER -> str

\* a.includes(b), for the normalized names, types and keywords of the model
Includes(a, b) ==
    \/ a = b
    \/ <<a, b>> \in {<<"warung makan sederhana", "warung">>, <<"toko budi", "toko">>}

\* the own properties of the object literal basicMappings
basicMappings ==
    [restaurant |-> <<"restoran", "rumah makan", "warung", "kedai", "cafe", "kafe",
                      "food", "makanan">>,
     cafe |-> <<"kafe", "coffee", "kopi", "warung kopi", "kedai kopi">>,
     retail |-> <<"toko", "shop", "store", "minimarket", "swalayan", "mart">>,
     pharmacy |-> <<"apotek", "farmasi", "obat">>]

\* the lower-case property names basicMappings inherits from Object.prototype:
\* their values are truthy and not iterable
InheritedKeys == {"constructor", "__proto__"}

\* compareBusinessNames: reason = which return statement answered, threw =
\* an exception left the function (`for ... of` over a value that is not
\* iterable)
compareBusinessNames(userBusinessName, aiClassifiedType, semanticThrows) ==
    LET name == Normalize(userBusinessName)
        type == Normalize(aiClassifiedType)
        keywords == IF type \in DOMAIN basicMappings THEN basicMappings[type] ELSE <<type>>
    IN IF ~semanticThrows THEN [threw |-> FALSE, reason |-> "semantic"]
       ELSE IF Includes(name, type) \/ Includes(type, name)
       THEN [threw |-> FALSE, reason |-> "direct"]
       ELSE IF type \notin DOMAIN basicMappings /\ type \in InheritedKeys
       THEN [threw |-> TRUE, reason |-> ""]
       ELSE IF \E i \in DOMAIN keywords : Includes(name, keywords[i])
       THEN [threw |-> FALSE, reason |-> "keyword"]
       ELSE [threw |-> FALSE, reason |-> "none"]

\* compareBusinessNames returns or throws, after compareBusinessSemantic
\* returned or threw
CompareReturns(r, throws) ==
    LET q == IF throws THEN Visit(req[r], "fallback") ELSE req[r]
        c == compareBusinessNames(q.bn, q.businessType, throws)
    IN /\ req[r].pc = "compare"
       /\ req' = [req EXCEPT ![r] =
             IF c.threw THEN ErrorResponse(q, 500, "INTERNAL_SERVER_ERROR")
             ELSE SuccessResponse([q EXCEPT !.comparison = c.reason])]
       /\ UNCHANGED <<now, rateLimitStore, last, callsInWin, authVars, started, rlSeen, burst>>

\* the credentials POST /classify is called with: none, user_1's API key, a
\* key no user has
ClassifyTokens == {NoToken, "qris_u1", "qris_f1"}

\* the store after AuthService.initialize with the database reachable
InitStoreConnected ==
    LET s == initialize([connected |-> FALSE, up |-> TRUE,
                         db |-> ("user_1" :> User1Row), fu |-> <<>>, fk |-> <<>>])
    IN /\ databaseConnected = s.connected
       /\ dbUp = s.up
       /\ dbUsers = s.db
       /\ fallbackUsers = s.fu
       /\ fallbackApiKeys = s.fk
       /\ issuedJwt = {}
       /\ usedKeys = {DefaultAdminKey, "qris_u1"}
       /\ regen = NoRegen
       /\ deactivated = {}

InitClassify ==
    /\ now = 1
    /\ rateLimitStore = <<>>
    /\ last = NoCall
    /\ callsInWin = [i \in Identifiers |-> [window |-> 0, n |-> 0]]
    /\ InitStoreConnected
    /\ InitReqIdle

ClassifySlots == 1..MaxInFlight

\* a body whose images map holds image1 only
OneImage(kind, json, bn) ==
    [json |-> json, images |-> [NoImages EXCEPT ![1] = kind], bn |-> bn]

\* one body for each answer of the validation stage
SampleBodies ==
    {OneImage("ok", TRUE, "Toko Budi"), OneImage("ok", TRUE, ""), OneImage("ok", FALSE, ""),
     OneImage("absent", TRUE, ""), OneImage("text", TRUE, ""), OneImage("okBig", TRUE, "")}

NextClassify ==
    \/ \E r \in ClassifySlots, token \in ClassifyTokens, sizeOk \in BOOLEAN, typeOk \in BOOLEAN :
          Begin(r, ClassifySlots, token, "ip1", sizeOk, typeOk, MaxStarted)
    \/ \E r \in ClassifySlots : Authenticate(r)
    \/ \E r \in ClassifySlots : RateLimitStage(r)
    \/ \E r \in ClassifySlots, body \in SampleBodies : Validate(r, body)
    \/ \E r \in ClassifySlots, throws \in BOOLEAN, t \in BusinessTypes :
          ClassifyReturns(r, throws, t)
    \/ \E r \in ClassifySlots, throws \in BOOLEAN : CompareReturns(r, throws)
    \/ TickUntil(ClassifyEnd)

SpecClassify == InitClassify /\ [][NextClassify]_vars

\* the handler of the request in slot r resumes after the promise it awaits
\* has settled: authenticateRequest, request.json(), classifyBusinessType
\* or compareBusinessNames has returned or thrown
HandlerStep(r) ==
    \/ Authenticate(r)
    \/ RateLimitStage(r)
    \/ \E body \in SampleBodies : Validate(r, body)
    \/ \E throws \in BOOLEAN, t \in BusinessTypes : ClassifyReturns(r, throws, t)
    \/ \E throws \in BOOLEAN : CompareReturns(r, throws)

\* the same, with every awaited promise settling and the event loop
\* resuming the handler that awaits it
SpecClassifyFair ==
    /\ InitClassify
    /\ [][NextClassify]_vars
    /\ \A r \in ClassifySlots : WF_vars(HandlerStep(r))

\* ------------------------------------------------------------------ burst specification
\* 2 * User1RateLimit requests of user_1, each valid up to the RATE_LIMIT
\* stage, arrive within the first instants of one window; every slot serves
\* one request
BurstEnd == 2

NextBurst ==
    \/ \E r \in Req : Begin(r, Req, "qris_u1", "ip1", TRUE, TRUE, 2 * User1RateLimit)
    \/ \E r \in Req : Authenticate(r)
    \/ \E r \in Req : RateLimitStage(r)
    \/ \E r \in Req, body \in SampleBodies : Validate(r, body)
    \/ \E r \in Req, throws \in BOOLEAN, t \in BusinessTypes : ClassifyReturns(r, throws, t)
    \/ \E r \in Req, throws \in BOOLEAN : CompareReturns(r, throws)
    \/ TickUntil(BurstEnd)

SpecBurst == InitClassify /\ [][NextBurst]_vars

\* ------------------------------------------------------------------ anonymous-traffic specification
\* one client sends requests that carry no credential, or a key no user
\* has, one after the other: enough of them to exhaust the budget of its IP
MaxAnonStarted == 12
AnonTokens == {NoToken, "qris_f1"}

NextAnon ==
    \/ \E token \in AnonTokens : Begin(1, {1}, token, "ip1", TRUE, TRUE, MaxAnonStarted)
    \/ Authenticate(1)
    \/ RateLimitStage(1)
    \/ Tick

SpecAnon == InitClassify /\ [][NextAnon]_vars

\* ------------------------------------------------------------------ validation specification
\* one client sends a few requests one after the other, with any headers,
\* any of the credentials and any body
MaxValidateStarted == 2

NextValidate ==
    \/ \E token \in ClassifyTokens, sizeOk \in BOOLEAN, typeOk \in BOOLEAN :
          Begin(1, {1}, token, "ip1", sizeOk, typeOk, MaxValidateStarted)
    \/ Authenticate(1)
    \/ RateLimitStage(1)
    \/ req[1].pc = "validate" /\ \E body \in Bodies : Validate(1, body)
    \/ \E throws \in BOOLEAN, t \in BusinessTypes : ClassifyReturns(1, throws, t)
    \/ \E throws \in BOOLEAN : CompareReturns(1, throws)

SpecValidate == InitClassify /\ [][NextValidate]_vars

\* ------------------------------------------------------------------ user-management specification
\* the ids createUser can draw, and the emails a body can carry
FreshUserIds == {"user_2"}
NewEmails == {AdminEmail, "u1@x.com", "new@x.com"}
Roles == {"admin", "user"}
\* the rateLimit the create schemas fill in by default
DefaultRateLimit == 100

\* the handler of POST /auth?action=create-user with body {email, role},
\* sent from `ip`: the check of the IP's budget, which every POST /auth
\* starts with, then authentication, the lookup by email and the insert.
\* g = what checkGlobalRateLimit's checkRateLimit call returned, s = the
\* credential store afterwards
createUserPost(st, s, issued, t, ip, token, email, role, id, key) ==
    LET g == checkRateLimit(st, GlobalIdentifier(ip), GLOBAL_LIMIT, t, WindowMs)
        a == authenticateRequest(s, token, issued)
        existingUser == getUserByEmail(a.s, email)
        c == createUser(a.s, email, role, DefaultRateLimit, id, key)
    IN IF ~g.allowed THEN [g |-> g, s |-> s, status |-> 429, created |-> FALSE]
       ELSE IF a.user = NoUser \/ a.user.role # "admin"
       THEN [g |-> g, s |-> a.s, status |-> 403, created |-> FALSE]
       ELSE IF existingUser # NoUser
       THEN [g |-> g, s |-> a.s, status |-> 409, created |-> FALSE]
       ELSE [g |-> g, s |-> c.s, status |-> 201, created |-> TRUE]

\* POST /auth?action=create-user; id and key are what createUser's random
\* draws give: an id no user has, a key not drawn before. The lookup by
\* email and the insert run with no other handler in between.
CreateUserReq(ip, token, email, role, id, key) ==
    LET p == createUserPost(rateLimitStore, AuthStore, issuedJwt, now, ip, token, email,
                            role, id, key)
    IN /\ key \in AllKeys \ usedKeys
       /\ id \notin DOMAIN dbUsers \cup DOMAIN fallbackUsers
       /\ CallsSoFar(callsInWin, GlobalIdentifier(ip), getCurrentWindow(now, WindowMs))
              < MaxLogins
       /\ DoCheckRateLimit(GlobalIdentifier(ip), GLOBAL_LIMIT, p.g, 1)
       /\ SetStore(p.s)
       /\ usedKeys' = IF p.created THEN usedKeys \cup {key} ELSE usedKeys
       /\ UNCHANGED <<now, issuedJwt, regen, deactivated, reqVars>>

\* POST /api-keys with body {email, role}: create a user with a new key
CreateKeyReq(token, email, role, id, key) ==
    LET a == authenticateRequest(AuthStore, token, issuedJwt)
        c == createUser(a.s, email, role, DefaultRateLimit, id, key)
    IN /\ key \in AllKeys \ usedKeys
       /\ id \notin DOMAIN dbUsers \cup DOMAIN fallbackUsers
       /\ UNCHANGED <<now, rateLimitStore, last, callsInWin, issuedJwt, regen, deactivated,
                      reqVars>>
       /\ IF a.user = NoUser \/ a.user.role # "admin"
          THEN SetStore(a.s) /\ UNCHANGED usedKeys
          ELSE SetStore(c.s) /\ usedKeys' = usedKeys \cup {key}

\* the credentials the user-management requests are sent with: none, the
\* admin's key, user_1's key, or a key a created user was given
UserTokens == {NoToken, DefaultAdminKey, "qris_u1"} \cup FreshKeys
\* the bodies PUT /auth is sent with: to change an email, a role or a
\* rateLimit
EmailBodies == {[email |-> e] : e \in NewEmails}
UserBodies == EmailBodies \cup {[role |-> "admin"], [rateLimit |-> DefaultAdminRateLimit]}
ManagedUserIds == AuthUserIds \cup FreshUserIds

NextUsers ==
    \/ \E token \in UserTokens, email \in NewEmails, role \in Roles, id \in FreshUserIds,
          key \in FreshKeys : CreateUserReq("ip1", token, email, role, id, key)
    \/ \E token \in UserTokens, email \in NewEmails, role \in Roles, id \in FreshUserIds,
          key \in FreshKeys : CreateKeyReq(token, email, role, id, key)
    \/ \E token \in UserTokens, userId \in ManagedUserIds, body \in UserBodies :
          PutUser(token, userId, body)
    \/ \E token \in UserTokens, userId \in ManagedUserIds : DeleteUserReq(token, userId)
    \/ \E token \in UserTokens, target \in ManagedUserIds \cup {""}, newKey \in FreshKeys :
          RegenerateApiKey(token, target, newKey)
    \/ DbFails
    \/ DbRecovers

\* ------------------------------------------------------------------ precheck specification
\* defaultConfig.corsOrigins, and the Origin headers a client sends ("" for none)
corsOrigins == {"http://localhost:3000", "http://localhost:9002"}
Origins == {"", "http://localhost:3000", "http://other.example"}

\* SecurityMiddleware.applyCorsHeaders for an OPTIONS request: the headers of
\* the preflight response
applyCorsHeaders(origin) ==
    (IF origin # "" /\ origin \in corsOrigins THEN {"Access-Control-Allow-Origin"} ELSE {})
        \cup {"Access-Control-Allow-Methods", "Access-Control-Allow-Headers",
              "Access-Control-Allow-Credentials", "Access-Control-Max-Age"}

\* an OPTIONS request arrives in slot r: the handler answers with the
\* preflight response
Options(r, slots, origin, cap) ==
    /\ r \in slots
    /\ req[r].pc \in {"idle", "done"}
    /\ \A r2 \in slots : r2 < r => req[r2].pc # "idle"
    /\ started < cap
    /\ req' = [req EXCEPT ![r] =
          [Visit(IdleReq, "options") EXCEPT !.pc = "done", !.status = 200,
                                            !.headers = applyCorsHeaders(origin)]]
    /\ started' = started + 1
    /\ UNCHANGED <<now, rateLimitStore, last, callsInWin, authVars, rlSeen, burst>>

\* one client sends preflights and POST requests, with any headers and any
\* of the credentials, one after the other
MaxPrecheckStarted == 3

NextPrecheck ==
    \/ \E token \in ClassifyTokens, sizeOk \in BOOLEAN, typeOk \in BOOLEAN :
          Begin(1, {1}, token, "ip1", sizeOk, typeOk, MaxPrecheckStarted)
    \/ \E origin \in Origins : Options(1, {1}, origin, MaxPrecheckStarted)
    \/ Authenticate(1)
    \/ RateLimitStage(1)
    \/ \E body \in SampleBodies : Validate(1, body)
    \/ TickUntil(ClassifyEnd)

SpecPrecheck == InitClassify /\ [][NextPrecheck]_vars

\* ------------------------------------------------------------------ credential-store specification
\* after the module-load call of AuthService.initialize, with the database
\* reachable or not
InitAuth ==
    /\ now = 1
    /\ rateLimitStore = <<>>
    /\ last = NoCall
    /\ callsInWin = [i \in Identifiers |-> [window |-> 0, n |-> 0]]
    /\ \E up \in BOOLEAN :
          LET s == initialize([connected |-> FALSE, up |-> up,
                               db |-> ("user_1" :> User1Row), fu |-> <<>>, fk |-> <<>>])
          IN /\ databaseConnected = s.connected
             /\ dbUp = s.up
             /\ dbUsers = s.db
             /\ fallbackUsers = s.fu
             /\ fallbackApiKeys = s.fk
    /\ issuedJwt = {}
    /\ usedKeys = {DefaultAdminKey, "qris_u1"}
    /\ regen = NoRegen
    /\ deactivated = {}
    /\ InitReqIdle

Emails == {AdminEmail, "u1@x.com"}
Passwords == {AdminPassword, DefaultPassword}

NextAuth ==
    \/ \E email \in Emails, password \in Passwords : Login("ip1", email, password)
    \/ \E token \in Tokens : GetProfile(token)
    \/ \E token \in Tokens, userId \in AuthUserIds, body \in PutBodies : PutUser(token, userId, body)
    \/ \E token \in Tokens, userId \in AuthUserIds : DeleteUserReq(token, userId)
    \/ \E token \in Tokens, target \in AuthUserIds \cup {""}, newKey \in AllKeys :
          RegenerateApiKey(token, target, newKey)
    \/ \E token \in Tokens : VerifyTokenReq(token)
    \/ DbFails
    \/ DbRecovers

SpecAuth == InitAuth /\ [][NextAuth]_vars

SpecUsers == InitAuth /\ [][NextUsers]_vars

\* ------------------------------------------------------------------ POST /admin
AdminActions == {"cleanup-rate-limits", "clear-logs"}

\* the handler of POST /admin?action=... for a request that presents token,
\* run on credential store s and limiter map st at time t. authResult is the
\* Promise authenticateRequest returns, which the handler does not await: a
\* Promise is truthy and has no property `user`, so reading
\* authResult.user.role throws a TypeError and the catch block answers.
\* The promise still runs to its end. [status, code, s, store]
adminPost(s, st, token, issued, action, t) ==
    LET promise == authenticateRequest(s, token, issued)
        authResultIsNull == FALSE
        authResultHasUser == FALSE
    IN IF authResultIsNull
       THEN [status |-> 403, code |-> "INSUFFICIENT_PERMISSIONS", s |-> promise.s, store |-> st]
       ELSE IF ~authResultHasUser
       THEN [status |-> 500, code |-> "INTERNAL_SERVER_ERROR", s |-> promise.s, store |-> st]
       ELSE IF promise.user.role # "admin"
       THEN [status |-> 403, code |-> "INSUFFICIENT_PERMISSIONS", s |-> promise.s, store |-> st]
       ELSE IF action = "cleanup-rate-limits"
       THEN [status |-> 200, code |-> "", s |-> promise.s, store |-> cleanup(st, t)]
       ELSE [status |-> 200, code |-> "", s |-> promise.s, store |-> st]

\* POST /admin?action=...
AdminPost(token, action) ==
    LET r == adminPost(AuthStore, rateLimitStore, token, issuedJwt, action, now)
    IN /\ SetStore(r.s)
       /\ rateLimitStore' = r.store
       /\ UNCHANGED <<now, last, callsInWin, issuedJwt, usedKeys, regen, deactivated, reqVars>>

NextAdmin ==
    \/ \E email \in Emails, password \in Passwords : Login("ip1", email, password)
    \/ \E token \in Tokens, action \in AdminActions : AdminPost(token, action)
    \/ \E token \in Tokens, userId \in AuthUserIds : DeleteUserReq(token, userId)
    \/ CleanupCall
    \/ Tick

SpecAdmin == InitAuth /\ [][NextAdmin]_vars


\* ------------------------------------------------------------------ claims
\* C1: over any sequence of checkRateLimit calls at non-decreasing times, a call is
\* allowed exactly when it is among the first `limit` calls that fall into its
\* window floor(now/W): the N-th call of a window is admitted, the (N+1)-th
\* is rejected, and the first call of the next window is admitted again.
C1_FirstNPerWindow ==
    last.called => (last.allowed <=> last.nth <= last.limit)

\* what authenticateRequest resolves a credential to in the current state
Authenticates(token) == authenticateRequest(AuthStore, token, issuedJwt).user

\* C8: after a successful regeneration of U's key from K_old to K_new, and
\* until U is regenerated, updated or deleted again, K_old authenticates no
\* request and K_new authenticates as U.
C8_OldKeyDeadNewKeyLive ==
    regen.user # "" =>
        /\ Authenticates(regen.old) = NoUser
        /\ Authenticates(regen.new).id = regen.user

\* the user set of the mode the store is in: the table while the database is
\* connected and answering, the in-memory map otherwise
ExistingUsers ==
    IF databaseConnected /\ dbUp THEN DOMAIN dbUsers ELSE DOMAIN fallbackUsers

\* the user's current record in that mode
CurrentUser(id) ==
    IF databaseConnected /\ dbUp THEN RowToUser(dbUsers[id]) ELSE fallbackUsers[id]

\* the keys that resolve to user id in the current state
KeysOf(id) == {k \in AllKeys : getUserByApiKey(AuthStore, k).id = id}

\* C9: in every reachable state each existing user has exactly one API key that
\* resolves to that user, and it is the user's current apiKey; the in-memory
\* key index maps a key to U exactly when that key is U's current apiKey.
C9_ExactlyOneLiveKey ==
    /\ \A id \in ExistingUsers : KeysOf(id) = {CurrentUser(id).apiKey}
    /\ \A id \in DOMAIN fallbackUsers : \A k \in AllKeys :
          (k \in DOMAIN fallbackApiKeys /\ fallbackApiKeys[k] = id)
              <=> fallbackUsers[id].apiKey = k

\* what POST /auth?action=login would answer for (email, password) now:
\* the id of the user a token is issued to, "" for a 401
LoginYields(email, password) ==
    LET r == authenticateUser(AuthStore, email, password)
    IN IF r.user = NoUser \/ ~r.user.isActive THEN "" ELSE r.user.id

\* C10: once a user's isActive has been set to false, and until an update sets
\* it back to true, no API key, token or login of that user authenticates.
C10_InactiveStaysOut ==
    \A id \in deactivated :
        /\ \A token \in Tokens : Authenticates(token).id # id
        /\ \A email \in Emails, password \in Passwords : LoginYields(email, password) # id

\* C4: every remaining returned by checkRateLimit, after any sequence of
\* checkRateLimit and cleanup calls, lies in 0..limit and equals
\* max(0, limit - count) for the count stored by that call.
C4_RemainingBounded ==
    last.called =>
        /\ last.remaining \in 0..last.limit
        /\ last.key \in DOMAIN rateLimitStore =>
              last.remaining = Max(0, last.limit - rateLimitStore[last.key].count)

\* the clamp is exercised: a call past the limit, after a sweep has run on a
\* store holding an expired entry, returned remaining = 0 with count > limit
C4_Witness ==
    /\ last.called
    /\ last.key \in DOMAIN rateLimitStore
    /\ rateLimitStore[last.key].count > last.limit
    /\ last.remaining = 0
    /\ \E i \in RLIdentifiers :
          /\ callsInWin[i].n > 0
          /\ getKey(i, callsInWin[i].window) \notin DOMAIN rateLimitStore

\* the stages a request went through, and their order
Visited(r, stage) == \E i \in DOMAIN req[r].trail : req[r].trail[i] = stage
VisitedBefore(r, a, b) ==
    \E i, j \in DOMAIN req[r].trail : i < j /\ req[r].trail[i] = a /\ req[r].trail[j] = b

\* the request in slot r was stopped at the RATE_LIMIT stage
Answered429(r) == req[r].pc = "done" /\ req[r].status = 429

\* C2: for a user with rateLimit N, the k-th request of a window that reaches
\* the RATE_LIMIT stage is admitted past it if and only if k <= N.
C2_KthAdmittedIffWithinLimit ==
    \A r \in Req :
        (req[r].user # NoUser /\ Visited(r, "userlimit")) =>
            (~Answered429(r) <=> req[r].k <= req[r].user.rateLimit)

\* C3: when the 2*N requests of one user with limit N were all in flight at
\* once and all have passed the RATE_LIMIT stage in the same window, exactly N
\* of them were admitted and exactly N were answered 429.
C3_BurstAdmitsExactlyN ==
    (/\ burst
     /\ \A r \in Req : Visited(r, "userlimit") /\ req[r].user.id = "user_1"
     /\ \A r \in Req : req[r].win = req[1].win) =>
        /\ Cardinality({r \in Req : ~Answered429(r)}) = User1RateLimit
        /\ Cardinality({r \in Req : Answered429(r)}) = User1RateLimit

\* C5: the 200 response of the k-th admitted request of a user with limit N in
\* a window carries rateLimit.remaining = N - k, which is never negative.
C5_RemainingIsLimitMinusK ==
    \A r \in Req :
        (req[r].pc = "done" /\ req[r].status = 200) =>
            /\ req[r].remaining = req[r].user.rateLimit - req[r].ka
            /\ req[r].remaining >= 0

\* C6: of the requests of one IP that resolve to no active user, the first
\* GLOBAL_LIMIT of a window are answered 401 AUTHENTICATION_REQUIRED and every
\* later one of that window is answered 429.
C6_FirstTenGet401 ==
    \A r \in Req :
        (req[r].pc = "done" /\ Visited(r, "anon")) =>
            /\ req[r].k <= GLOBAL_LIMIT =>
                  req[r].status = 401 /\ req[r].code = "AUTHENTICATION_REQUIRED"
            /\ req[r].k > GLOBAL_LIMIT => req[r].status = 429

C11_DeletedSubjectStaysOut ==
    \A id \in issuedJwt :
        id \notin ExistingUsers => Authenticates(JwtOf(id)) = NoUser

\* what POST /classify would do now with a request from `ip` that passes the
\* prechecks and presents `token`, from authenticateRequest to the end of
\* the RATE_LIMIT stage: the response (pc = "validate" when there is none
\* yet), the credential store and the limiter's map it leaves
ClassifyGate(token, ip) ==
    LET a == authenticateRequest(AuthStore, token, issuedJwt)
        q == [Visit(Visit(Visit([IdleReq EXCEPT !.ip = ip], "size"), "type"), "auth")
                 EXCEPT !.pc = "ratelimit", !.user = a.user]
        o == RateLimitOutcome(q, rateLimitStore, now)
    IN [pc |-> o.q.pc, status |-> o.q.status, code |-> o.q.code,
        remaining |-> o.q.remaining, sec |-> o.q.sec, trail |-> o.q.trail,
        s |-> a.s, rateLimitStore |-> o.r.store]

\* the API key of a user whose isActive is false / a key no user has
KeyOfInactiveUser(k) ==
    getUserByApiKey(AuthStore, k) # NoUser /\ ~getUserByApiKey(AuthStore, k).isActive
KeyOfNoUser(k) == getUserByApiKey(AuthStore, k) = NoUser

\* C12: a request that presents the API key of a deactivated user gets the
\* same response and causes the same state change as a request that presents
\* a key no user has.
C12_InactiveKeyLikeUnknownKey ==
    \A k1, k2 \in AllKeys :
        (KeyOfInactiveUser(k1) /\ KeyOfNoUser(k2)) =>
            ClassifyGate(k1, "ip1") = ClassifyGate(k2, "ip1")

\* user_1 has been deactivated by an update and its key is answered 401
C12_Witness ==
    /\ "user_1" \in deactivated
    /\ \E k1, k2 \in AllKeys :
          /\ KeyOfInactiveUser(k1) /\ getUserByApiKey(AuthStore, k1).id = "user_1"
          /\ KeyOfNoUser(k2)
          /\ ClassifyGate(k1, "ip1").status = 401
          /\ ClassifyGate(k1, "ip1").code = "AUTHENTICATION_REQUIRED"

\* what POST /auth?action=login answers for (email, password) now
LoginAnswer(email, password) ==
    IF LoginYields(email, password) = ""
    THEN [status |-> 401, code |-> "INVALID_CREDENTIALS"]
    ELSE [status |-> 200, code |-> ""]

\* what /auth/verify answers for a Bearer token now
VerifyAnswer(token) ==
    [status |-> verifyTokenRoute(AuthStore, token, issuedJwt).status,
     error |-> verifyTokenRoute(AuthStore, token, issuedJwt).error]

\* the credentials a client can present that are not the absence of one
Presented == Tokens \ {NoToken}

\* C13: on each endpoint, any two invalid credentials (unknown key, bad or
\* expired token, token of a deleted or inactive user, wrong password,
\* unknown email) are answered with the same status and the same body.
C13_InvalidCredentialsAlike ==
    /\ \A t1, t2 \in Presented :
          (Authenticates(t1) = NoUser /\ Authenticates(t2) = NoUser) =>
              /\ ClassifyGate(t1, "ip1").status = ClassifyGate(t2, "ip1").status
              /\ ClassifyGate(t1, "ip1").code = ClassifyGate(t2, "ip1").code
    /\ \A e1, e2 \in Emails, p1, p2 \in Passwords :
          (LoginAnswer(e1, p1).status # 200 /\ LoginAnswer(e2, p2).status # 200) =>
              LoginAnswer(e1, p1) = LoginAnswer(e2, p2)
    /\ \A t1, t2 \in Presented :
          (VerifyAnswer(t1).status # 200 /\ VerifyAnswer(t2).status # 200) =>
              VerifyAnswer(t1) = VerifyAnswer(t2)

\* the request in slot r came with a credential of an active user and was
\* admitted past the RATE_LIMIT stage
Admitted(r) == req[r].user # NoUser /\ req[r].ka > 0

\* the slots of the schema in which the body of the request holds a
\* non-empty string, and those of them that hold no image data URI / a
\* string above the size limit
Supplied(r) == {i \in SchemaSlots : Truthy(req[r].body.images[i])}
NotDataUri(r) == {i \in Supplied(r) : req[r].body.images[i] \in {"text", "textBig"}}
TooLarge(r) == {i \in Supplied(r) : req[r].body.images[i] \in {"okBig", "textBig"}}

Is4xx(r) == req[r].pc = "done" /\ req[r].status \in 400..499

\* C14: the classifier is called only for a request that passed the size and
\* content-type prechecks, authentication, the user's rate limit, the body
\* shape, the data-URI check and the size check of every image; a request
\* answered 4xx caused no classifier call and no compare call.
C14_ClassifierAfterAllGates ==
    \A r \in Req :
        /\ req[r].classifyCalls > 0 =>
              /\ req[r].sizeOk /\ req[r].typeOk
              /\ Admitted(r)
              /\ WellShaped(req[r].body)
              /\ Cardinality(Supplied(r)) \in 1..MaxImages
              /\ NotDataUri(r) = {}
              /\ TooLarge(r) = {}
        /\ Is4xx(r) => req[r].classifyCalls = 0 /\ req[r].compareCalls = 0

\* five valid images were classified
C14_Witness ==
    \E r \in Req :
        /\ req[r].pc = "done" /\ req[r].status = 200 /\ req[r].classifyCalls = 1
        /\ Cardinality(Supplied(r)) = MaxImages

\* the request in slot r is finished and evaluated exactly the gates of
\* `trail`, in that order
StoppedAt(r, trail) == req[r].pc = "done" /\ req[r].trail = trail

\* C15: a finished request that violates gates is answered with the error of
\* the earliest gate it violates, in the order size, content type,
\* authentication, user rate limit, body shape, image format, image size,
\* and no later gate was evaluated for it.
C15_EarliestGateWins ==
    \A r \in Req :
        req[r].pc = "done" =>
            IF ~req[r].sizeOk
            THEN req[r].status = 413 /\ StoppedAt(r, <<"size">>)
            ELSE IF ~req[r].typeOk
            THEN req[r].status = 415 /\ StoppedAt(r, <<"size", "type">>)
            ELSE IF req[r].user = NoUser
            THEN /\ req[r].status \in {401, 429}
                 /\ StoppedAt(r, <<"size", "type", "auth", "anon">>)
            ELSE IF Answered429(r)
            THEN StoppedAt(r, <<"size", "type", "auth", "userlimit">>)
            ELSE IF ~WellShaped(req[r].body)
            THEN /\ req[r].status = 400 /\ req[r].code = "INVALID_REQUEST_BODY"
                 /\ StoppedAt(r, <<"size", "type", "auth", "userlimit", "body">>)
            ELSE IF NotDataUri(r) # {}
            THEN /\ req[r].status = 400 /\ req[r].code = "INVALID_IMAGE_FORMAT"
                 /\ StoppedAt(r, <<"size", "type", "auth", "userlimit", "body", "count",
                                   "format">>)
            ELSE IF TooLarge(r) # {}
            THEN /\ req[r].status = 400 /\ req[r].code = "IMAGE_TOO_LARGE"
                 /\ StoppedAt(r, <<"size", "type", "auth", "userlimit", "body", "count",
                                   "format", "imgsize">>)
            ELSE TRUE

\* a request of an admitted user whose image1 is no data URI and above the
\* size limit, and whose image2 is above the size limit, was answered
\* INVALID_IMAGE_FORMAT
C15_Witness ==
    \E r \in Req :
        /\ req[r].pc = "done" /\ Admitted(r) /\ WellShaped(req[r].body)
        /\ req[r].body.images[1] = "textBig" /\ req[r].body.images[2] = "okBig"
        /\ req[r].code = "INVALID_IMAGE_FORMAT"

\* C16: an admitted request whose images map has no non-empty slot is
\* rejected with 400 NO_IMAGES_PROVIDED.
C16_NoImagesProvided ==
    \A r \in Req :
        (/\ req[r].pc = "done" /\ Admitted(r) /\ Visited(r, "body")
         /\ WellShaped(req[r].body)
         /\ \A i \in BodySlots : ~Truthy(req[r].body.images[i])) =>
            req[r].status = 400 /\ req[r].code = "NO_IMAGES_PROVIDED"

\* C17: an admitted request whose images map carries six well-formed data
\* URIs, image1..image6, is rejected with 400 TOO_MANY_IMAGES and causes no
\* classifier call.
C17_TooManyImages ==
    \A r \in Req :
        (/\ Admitted(r) /\ Visited(r, "body")
         /\ WellShaped(req[r].body)
         /\ \A i \in BodySlots : req[r].body.images[i] = "ok") =>
            /\ req[r].classifyCalls = 0
            /\ req[r].pc = "done" /\ req[r].status = 400 /\ req[r].code = "TOO_MANY_IMAGES"

\* C18: an admitted request with a well-shaped body in which a supplied slot
\* holds a string that is no image data URI is rejected with 400
\* INVALID_IMAGE_FORMAT naming such a slot, whatever the sizes and the other
\* slots, and causes no classifier call.
C18_InvalidImageFailsRequest ==
    \A r \in Req :
        (/\ Admitted(r) /\ Visited(r, "body")
         /\ WellShaped(req[r].body)
         /\ NotDataUri(r) # {}) =>
            /\ req[r].pc = "done" /\ req[r].status = 400
            /\ req[r].code = "INVALID_IMAGE_FORMAT"
            /\ req[r].slot \in NotDataUri(r)
            /\ req[r].classifyCalls = 0

\* the last of five supplied images is no data URI, the others are valid and
\* one of them is above the size limit
C18_Witness ==
    \E r \in Req :
        /\ req[r].pc = "done" /\ Admitted(r) /\ WellShaped(req[r].body)
        /\ Supplied(r) = SchemaSlots /\ NotDataUri(r) = {5} /\ TooLarge(r) = {1}
        /\ req[r].code = "INVALID_IMAGE_FORMAT" /\ req[r].slot = 5

\* C19: when classifyBusinessType throws, the request is answered 500
\* INTERNAL_SERVER_ERROR, the classifier was called exactly once for it and
\* the compare collaborator was not called.
C19_ClassifierFailureIs500 ==
    \A r \in Req :
        req[r].classifyThrew =>
            /\ req[r].pc = "done" /\ req[r].status = 500
            /\ req[r].code = "INTERNAL_SERVER_ERROR"
            /\ req[r].classifyCalls = 1
            /\ req[r].compareCalls = 0

\* the classifier threw for a request that supplied a business name
C19_Witness ==
    \E r \in Req : req[r].classifyThrew /\ req[r].bn # "" /\ req[r].status = 500

\* C20: when classification succeeded and businessName was supplied, the
\* finished request is answered 200 with a comparison object, whether
\* compareBusinessSemantic returned or threw.
C20_CompareFailureDegrades ==
    \A r \in Req :
        (req[r].pc = "done" /\ req[r].compareCalls > 0) =>
            req[r].status = 200 /\ req[r].comparison # ""

\* C21: every response POST /classify returns, whatever its status, carries
\* the headers applySecurityHeaders sets.
C21_SecurityHeadersOnEveryResponse ==
    \A r \in Req :
        req[r].pc = "done" => SecurityHeaders \subseteq req[r].headers

\* C22: a request rejected for exceeding a rate limit is answered 429 with
\* the X-RateLimit-* and Retry-After headers and a body in the error envelope
\* whose code is RATE_LIMIT_EXCEEDED.
C22_RateLimitRejectionEnvelope ==
    \A r \in Req :
        Answered429(r) =>
            /\ (Visited(r, "anon") \/ Visited(r, "userlimit"))
            /\ (RateLimitHeaders \cup {"Retry-After"}) \subseteq req[r].headers
            /\ req[r].shape = "errorEnvelope"
            /\ req[r].code = "RATE_LIMIT_EXCEEDED"

\* the record of the bootstrap admin is stored somewhere and every stored
\* copy of it is as it was seeded: no request has updated or deleted it
AdminUntouched ==
    /\ defaultAdmin.id \in DOMAIN dbUsers \cup DOMAIN fallbackUsers
    /\ defaultAdmin.id \in DOMAIN dbUsers => dbUsers[defaultAdmin.id] = AdminRow
    /\ defaultAdmin.id \in DOMAIN fallbackUsers =>
          /\ fallbackUsers[defaultAdmin.id] = defaultAdmin
          /\ DefaultAdminKey \in DOMAIN fallbackApiKeys

\* C23: while the database is unreachable, whether it was at startup or
\* became so later, authenticateRequest answers every credential with an
\* active user or with null, and the API key of the untouched bootstrap admin
\* resolves to the admin.
C23_AdminKeyResolvesWhenDbDown ==
    ~dbUp =>
        /\ \A token \in Tokens :
              Authenticates(token) = NoUser \/ Authenticates(token).isActive
        /\ AdminUntouched => Authenticates(DefaultAdminKey).id = defaultAdmin.id

\* C24: authenticateRequest is read-only: whatever credential it is called
\* with, the users table, the in-memory user map and the in-memory key index
\* are the same after it as before it.
C24_ResolutionReadOnly ==
    \A token \in Tokens :
        authenticateRequest(AuthStore, token, issuedJwt).s = AuthStore

\* the request q ended in PRECHECK: it is a preflight, or a POST answered by
\* the size gate or by the content-type gate
PrecheckTerminated(q) ==
    /\ q.pc = "done"
    /\ q.trail \in {<<"options">>, <<"size">>, <<"size", "type">>}

\* C25: a step in which a request arrives and ends in PRECHECK (a preflight,
\* a 413 or a 415) leaves the rate-limit table and the user store as they
\* were, and the request has resolved no credential and called no classifier.
C25_PrecheckTouchesNothing ==
    [][\A r \in Req :
          (started' # started /\ req'[r] # req[r] /\ PrecheckTerminated(req'[r])) =>
              /\ UNCHANGED <<rateLimitStore, storeVars>>
              /\ req'[r].status \in {200, 413, 415}
              /\ req'[r].user = NoUser /\ ~\E i \in DOMAIN req'[r].trail : req'[r].trail[i] = "auth"
              /\ req'[r].classifyCalls = 0]_vars

\* a 413, a 415 or a preflight answer was given while the limiter held a
\* counter of an earlier request
C25_Witness ==
    \E r \in Req :
        /\ PrecheckTerminated(req[r])
        /\ rateLimitStore # <<>>
        /\ started = MaxPrecheckStarted

\* C26: every checkRateLimit call of a sequence with cleanup calls interleaved
\* at any points returns the allowed and remaining it returns in the same
\* sequence, at the same times, without any cleanup call.
C26_CleanupInvisible ==
    last.called =>
        /\ last.allowed = last.allowedNoSweep
        /\ last.remaining = last.remainingNoSweep

\* sweeps have removed entries of an identifier that was then called again
\* past its limit
C26_Witness ==
    /\ last.called /\ ~last.allowed
    /\ last.key \in DOMAIN rateLimitStore
    /\ \E k \in DOMAIN last.noSweep \ DOMAIN rateLimitStore : k[1] = last.key[1]

\* the keys checkRateLimit can write in the limiter-only specification
RLKeys == {getKey(i, w) : i \in RLIdentifiers, w \in 0..(MaxTime \div WindowMs)}

\* the entry stored under key has resetTime < now
Expired(key) ==
    key \in DOMAIN rateLimitStore /\ rateLimitStore[key].resetTime < now

\* C27: while the periodic sweep keeps firing, every stored entry whose
\* resetTime lies in the past is eventually gone from the store.
C27_ExpiredEventuallyRemoved ==
    \A key \in RLKeys : Expired(key) ~> ~Expired(key)

\* entries were written and every one of them has been removed since
C27_Witness ==
    /\ last.noSweep # <<>>
    /\ rateLimitStore = <<>>
    /\ now = MaxTime

\* the ids under which map m (the users table or the in-memory map) holds a
\* record with this email
WithEmail(m, email) == {id \in DOMAIN m : m[id].email = email}

\* C28: in every reachable state no two user records have the same email,
\* whatever create-user, create-key and update requests were sent, with the
\* database connected or in degraded mode.
C28_EmailUnique ==
    \A email \in NewEmails :
        /\ Cardinality(WithEmail(dbUsers, email)) <= 1
        /\ Cardinality(WithEmail(fallbackUsers, email)) <= 1

\* what POST /admin?action=cleanup-rate-limits would answer now to a request
\* that presents token, and the limiter map it would leave
AdminCleanupAnswer(token) ==
    adminPost(AuthStore, rateLimitStore, token, issuedJwt, "cleanup-rate-limits", now)

\* C29: POST /admin?action=cleanup-rate-limits from an authenticated active
\* admin runs the sweep and is answered with success; from any other caller
\* it is answered 403 INSUFFICIENT_PERMISSIONS and the sweep does not run.
C29_AdminCleanup ==
    \A token \in Tokens :
        IF Authenticates(token) # NoUser /\ Authenticates(token).role = "admin"
        THEN /\ AdminCleanupAnswer(token).status = 200
             /\ AdminCleanupAnswer(token).store = cleanup(rateLimitStore, now)
        ELSE /\ AdminCleanupAnswer(token).status = 403
             /\ AdminCleanupAnswer(token).code = "INSUFFICIENT_PERMISSIONS"
             /\ AdminCleanupAnswer(token).store = rateLimitStore

\* the identifier the RATE_LIMIT stage of the request in slot r counted
CountedAs(r) ==
    IF req[r].user = NoUser THEN GlobalIdentifier(req[r].ip) ELSE req[r].user.id

\* the request in slot r has made its checkRateLimit calls
Counted(r) == req[r].calls > 0

\* C30: with handlers interleaved at their await points, after k
\* checkRateLimit calls for one identifier strictly inside one window the
\* stored count is k, and no two calls read the same count before their
\* increment.
C30_CountsEveryCall ==
    /\ \A i \in Identifiers :
          (callsInWin[i].n > 0 /\ callsInWin[i].window = getCurrentWindow(now, WindowMs)) =>
              /\ getKey(i, callsInWin[i].window) \in DOMAIN rateLimitStore
              /\ rateLimitStore[getKey(i, callsInWin[i].window)].count = callsInWin[i].n
    /\ \A r1, r2 \in Req :
          (/\ r1 # r2 /\ Counted(r1) /\ Counted(r2)
           /\ CountedAs(r1) = CountedAs(r2) /\ req[r1].win = req[r2].win) =>
              \/ req[r1].pre + req[r1].calls <= req[r2].pre
              \/ req[r2].pre + req[r2].calls <= req[r1].pre

\* all the requests of the burst were in flight before the RATE_LIMIT stage
\* at once and have all made their calls, one of them at the next instant
C30_Witness ==
    /\ burst
    /\ \A r \in Req : Counted(r)
    /\ now = BurstEnd
    /\ callsInWin["user_1"].n > 2 * User1RateLimit

\* C31: the resetTime checkRateLimit returns, and the one it stores in the
\* entry, is the end of the window that contains the call, also when the
\* call is made at an exact multiple of the window size:
\* resetTime = (floor(now / W) + 1) * W, so that now < resetTime <= now + W.
\* The window number floor(now / W) of a call is the second part of its key.
C31_ResetTimeIsWindowEnd ==
    /\ last.called => last.resetTime = (last.key[2] + 1) * WindowMs
    /\ \A key \in DOMAIN rateLimitStore :
          rateLimitStore[key].resetTime = (key[2] + 1) * WindowMs

\* the number of calls that returned allowed = true at the instants a..b
RECURSIVE AdmittedBetween(_, _)
AdmittedBetween(a, b) ==
    IF a > b THEN 0 ELSE last.admittedAt[a] + AdmittedBetween(a + 1, b)

\* C32: for one identifier with limit N, in every time interval no longer
\* than one window the number of checkRateLimit calls that return
\* allowed = true is at most 2 * N, whatever the call times are.
C32_BurstAtMostTwiceLimit ==
    last.called =>
        \A a \in 0..MaxTime : \A b \in a..MaxTime :
            (b - a <= WindowMs) => AdmittedBetween(a, b) <= 2 * last.limit

\* classifyBusinessType has returned a result to the request in slot r
ClassificationSucceeded(r) ==
    /\ req[r].classifyCalls > 0
    /\ req[r].pc # "classify"
    /\ ~req[r].classifyThrew

\* the body of the request in slot r passed the schema and has a businessName
SuppliesName(r) == SchemaAccepts(req[r].body) /\ req[r].body.bn # ""

\* C33: compareBusinessNames is invoked in a POST /classify request if and
\* only if classification succeeded and the validated body contains
\* businessName; when businessName is absent, compare is never invoked and
\* the response carries no comparison field.
C33_CompareIffNameSupplied ==
    \A r \in Req :
        /\ (req[r].compareCalls > 0) <=> (ClassificationSucceeded(r) /\ SuppliesName(r))
        /\ req[r].body.bn = "" => (req[r].compareCalls = 0 /\ req[r].comparison = "")

\* a request with a businessName was classified, compared once and answered
\* 200 with a comparison
C33_Witness ==
    \E r \in Req :
        /\ req[r].pc = "done" /\ req[r].status = 200
        /\ req[r].body.bn \in BusinessNames
        /\ req[r].compareCalls = 1
        /\ req[r].comparison # ""

C35_AuthenticatedSparesIpBudget ==
    \A token \in UserTokens, ip \in Ips, email \in NewEmails, role \in Roles,
       id \in FreshUserIds, key \in FreshKeys :
        Authenticates(token) # NoUser =>
            LET k == getKey(GlobalIdentifier(ip), getCurrentWindow(now, WindowMs))
                p == createUserPost(rateLimitStore, AuthStore, issuedJwt, now, ip, token,
                                    email, role, id, key)
            IN LiveEntry(p.g.store, k, now, WindowMs).count =
                   LiveEntry(rateLimitStore, k, now, WindowMs).count

\* C36: no request on /auth or /api-keys that is unauthenticated or
\* authenticated as a non-admin user creates or deletes a user, changes any
\* user's role or rateLimit, or modifies another user's record or API key:
\* every step that is such a request leaves the set of users, every role
\* and rateLimit, and the records and keys of all users but the caller as
\* they were, in the table and in the in-memory maps.
C36_NonAdminLeavesUsersAlone ==
    [][\A token \in UserTokens :
          LET caller == Authenticates(token)
              sent ==
                  \/ \E email \in NewEmails, role \in Roles, id \in FreshUserIds,
                        key \in FreshKeys :
                         \/ CreateUserReq("ip1", token, email, role, id, key)
                         \/ CreateKeyReq(token, email, role, id, key)
                  \/ \E userId \in ManagedUserIds, body \in UserBodies :
                         PutUser(token, userId, body)
                  \/ \E userId \in ManagedUserIds : DeleteUserReq(token, userId)
                  \/ \E target \in ManagedUserIds \cup {""}, newKey \in FreshKeys :
                         RegenerateApiKey(token, target, newKey)
              kept(m1, m2) ==
                  /\ DOMAIN m2 = DOMAIN m1
                  /\ \A id \in DOMAIN m1 :
                        /\ m2[id].role = m1[id].role
                        /\ m2[id].rateLimit = m1[id].rateLimit
                        /\ id # caller.id => m2[id] = m1[id]
          IN (sent /\ (caller = NoUser \/ caller.role # "admin")) =>
                 /\ kept(dbUsers, dbUsers')
                 /\ kept(fallbackUsers, fallbackUsers')
                 /\ \A k \in DOMAIN fallbackApiKeys :
                       fallbackApiKeys[k] # caller.id =>
                           k \in DOMAIN fallbackApiKeys' /\ fallbackApiKeys'[k] = fallbackApiKeys[k]]_vars

====
